---- MODULE Spec2Model ----
(***************************************************************************)
(* Video Lab Pro (src/video1.py): the playback/seek controller, the export *)
(* workers, the decoder handle they share and the control values the       *)
(* effects pipeline reads.                                                 *)
(*                                                                         *)
(* Threads.  The Tk main thread runs one handler at a time (ui.pc); the    *)
(* preview thread (th) and the export workers (ex) are Python threads and  *)
(* interleave with it between statements.  A Tk call made by a worker      *)
(* thread (a control variable's get(), root.after) is executed by the main *)
(* thread's event loop, so it completes only while no handler is running:  *)
(* such steps are guarded by UiIdle.                                       *)
(*                                                                         *)
(* A decoded frame is represented by its index in the source; a processed  *)
(* frame by the source index together with the overlay and crop values the *)
(* pipeline run read.  overlay_opacity is kept in percent and              *)
(* overlay_scale in tenths.                                                *)
(***************************************************************************)
EXTENDS Integers, Sequences, FiniteSets, TLC

\* ---------------------------------------------------------------- bounds
MaxFrames == 2          \* a video has 0..MaxFrames frames (0: it cannot be decoded)
MaxOpens == 2           \* open_video calls in one run
MaxPlay == 2            \* preview thread objects that can be created
MaxExports == 1         \* export workers that can be started
MaxDecodeFailures == 1  \* decoder reads that fail on a readable position
MaxCtlChanges == 3      \* crop control changes in one run
MaxMarkers == 2         \* markers that can be added
MaxEffects == 1         \* effects that can be added to the list
MaxProcFaults == 1      \* pipeline runs of a worker that raise
MaxSide == 2            \* width and height of the small frames and overlay images

\* ------------------------------------------------------ program constants
InitCropW == 640        \* crop_w = tk.IntVar(value=640)
InitCropH == 480        \* crop_h = tk.IntVar(value=480)
InitOverlayXY == 10     \* overlay_x, overlay_y = tk.IntVar(value=10)
InitOverlayOpacity == 100  \* overlay_opacity = 1.0, in percent
InitOverlayScale == 10     \* overlay_scale = 1.0, in tenths
BigStep == 10           \* the "<<" and ">>" buttons
InitBrightness == 0     \* brightness = tk.DoubleVar(value=0)
InitContrast == 1       \* contrast = tk.DoubleVar(value=1.0)

NoFrame == -1           \* None, for a frame
PlayIds == 1..MaxPlay
ExpIds == 1..MaxExports
FrameCounts == 0..MaxFrames
StepDeltas == {-BigStep, -1, 1, BigStep}
ExportKinds == {"video", "sequence"}
CropFields == {"crop_enabled", "crop_x", "crop_y", "crop_w", "crop_h"}

Min(a, b) == IF a < b THEN a ELSE b
Max(a, b) == IF a > b THEN a ELSE b

VARIABLES
    video_cap,          \* 0: None; k: the k-th VideoCapture object opened
    cap_released,       \* release() was called on the object video_cap names
    cap_count,          \* its CAP_PROP_FRAME_COUNT
    cap_pos,            \* its CAP_PROP_POS_FRAMES
    frame_count,
    current_frame_idx,
    current_frame,
    processed_frame,
    is_playing,
    stop_preview,
    preview_thread,     \* 0: None; t: the preview thread object
    overlay_image,      \* an overlay image is loaded
    ctl,                \* the Tk control variables the pipeline reads
    crop_params,
    markers,
    markers_listbox,    \* the rows of the markers listbox
    ui,                 \* the main thread: the handler it is in and its locals
    th,                 \* the preview threads
    ex,                 \* the export workers
    fail_budget,        \* environment: decoder failures still to come
    used_released,      \* history: a set/read was issued on a released handle
    ctl_hist,           \* history: the control configurations so far
    effects_pipeline,   \* the effect list: a sequence of effect types
    params,             \* the scalar Tk control variables of the effects
    overlay_params,
    project_file,       \* the project document on disk
    tk_queue,           \* root.after(0, ...) callbacks not yet run
    tk_log,             \* history: the callbacks the main loop has run
    proc_faults,        \* environment: pipeline runs that still raise
    probe               \* history: the last call observed, its inputs and result

vars == <<video_cap, cap_released, cap_count, cap_pos, frame_count,
          current_frame_idx, current_frame, processed_frame, is_playing,
          stop_preview, preview_thread, overlay_image, ctl, crop_params,
          markers, markers_listbox, ui, th, ex, fail_budget, used_released, ctl_hist,
          effects_pipeline, params, overlay_params, project_file,
          tk_queue, tk_log, proc_faults, probe>>

capVars == <<video_cap, cap_released, cap_count, cap_pos, fail_budget, used_released>>
playVars == <<is_playing, stop_preview, preview_thread>>
ctlVars == <<overlay_image, ctl, crop_params, ctl_hist>>
frameVars == <<current_frame, processed_frame>>
projVars == <<effects_pipeline, params, overlay_params, project_file>>
tkVars == <<tk_queue, tk_log>>
markerVars == <<markers, markers_listbox>>
extVars == <<projVars, tkVars, proc_faults, probe>>

\* ------------------------------------------------------------- pipeline
ZeroSnap ==
    [overlay_x |-> 0, overlay_y |-> 0, overlay_scale |-> 0, overlay_opacity |-> 0,
     crop_enabled |-> FALSE, crop_x |-> 0, crop_y |-> 0, crop_w |-> 0, crop_h |-> 0]

NoProcessed == [src |-> NoFrame, ov |-> <<>>, crop |-> <<>>]

\* apply_effects_pipeline, lines 597-606, on the control values a run read
ApplyEffects(frame, v, has_ov) ==
    [src |-> frame,
     ov |-> IF has_ov THEN <<v.overlay_x, v.overlay_y, v.overlay_scale, v.overlay_opacity>>
            ELSE <<>>,
     crop |-> IF v.crop_enabled THEN <<v.crop_x, v.crop_y, v.crop_w, v.crop_h>> ELSE <<>>]

\* The control variables a run reads, in the order it reads them:
\* apply_overlay (613-615) when an overlay is loaded, then crop (602-603).
ReadOrder(has_ov) ==
    (IF has_ov THEN <<"overlay_x", "overlay_y", "overlay_scale", "overlay_opacity">>
     ELSE <<>>)
    \o <<"crop_enabled", "crop_x", "crop_y", "crop_w", "crop_h">>

CropEnabledAt(has_ov) == IF has_ov THEN 5 ELSE 1

\* A pipeline run in progress: k reads done, h0 the configuration it started in
NewRun(has_ov) == [k |-> 0, has_ov |-> has_ov, h0 |-> Len(ctl_hist), v |-> ZeroSnap]
IdleRun == [k |-> 0, has_ov |-> FALSE, h0 |-> 0, v |-> ZeroSnap]

PipeRead(pl) ==
    LET f == ReadOrder(pl.has_ov)[pl.k + 1]
    IN [pl EXCEPT !.k = @ + 1, !.v = [@ EXCEPT ![f] = ctl[f]]]

\* line 602: the crop values are read only when crop is enabled
PipeDone(pl) ==
    \/ pl.k = Len(ReadOrder(pl.has_ov))
    \/ pl.k >= CropEnabledAt(pl.has_ov) /\ ~pl.v.crop_enabled

\* The whole run on the main thread, where no handler can interleave
PipelineNow(frame, c, has_ov) == ApplyEffects(frame, c, has_ov)

\* update_preview_display, lines 634-638
PreviewOf(frame, c, has_ov, old) ==
    IF frame = NoFrame THEN old ELSE PipelineNow(frame, c, has_ov)

\* --------------------------------------------------------------- decoder
\* VideoCapture.read(): (ret, frame) and the position afterwards
ReadOutcomes ==
    LET good == ~cap_released /\ cap_pos \in 0..(cap_count - 1)
    IN  (IF good
         THEN {[ret |-> TRUE, frame |-> cap_pos, pos |-> cap_pos + 1, budget |-> fail_budget]}
         ELSE {[ret |-> FALSE, frame |-> NoFrame, pos |-> cap_pos, budget |-> fail_budget]})
        \cup
        (IF good /\ fail_budget > 0
         THEN {[ret |-> FALSE, frame |-> NoFrame, pos |-> cap_pos, budget |-> fail_budget - 1]}
         ELSE {})

\* VideoCapture.set(CAP_PROP_POS_FRAMES, p): nothing on a released object
CapSet(p) ==
    /\ cap_pos' = IF cap_released THEN cap_pos ELSE p
    /\ used_released' = (used_released \/ cap_released)
    /\ UNCHANGED <<video_cap, cap_released, cap_count, fail_budget>>

CapRead(o) ==
    /\ cap_pos' = o.pos
    /\ fail_budget' = o.budget
    /\ used_released' = (used_released \/ cap_released)
    /\ UNCHANGED <<video_cap, cap_released, cap_count>>

\* ------------------------------------------------------------ controller
\* step_frame, line 547, with the lower clamp left out
StepNoFloor(cur, delta, fc) == Min(fc - 1, cur + delta)

\* step_frame, line 547
StepTarget(cur, delta, fc) == Max(0, Min(fc - 1, cur + delta))

\* preview_loop, line 527, with the stop flag left out
LoopIgnoresStop(playing, stop) == playing

\* preview_loop, line 527
LoopContinues(playing, stop) == playing /\ ~stop

\* preview_loop, line 530
AtLastFrame(idx, fc) == idx >= fc - 1

\* toggle_playback, line 502
StartsThread(playing, thread) == playing /\ thread = 0

\* stop_preview_thread, line 519
StopFlagOnPause == TRUE

UiIdle == ui.pc = "idle"
UiIdleRec == [pc |-> "idle", a |-> 0]

ThOff == [pc |-> "off", new_idx |-> 0, frame |-> NoFrame, pl |-> IdleRun,
          paused |-> FALSE, late |-> FALSE, steps_after |-> 0]

ExOff == [pc |-> "off", kind |-> "video", n |-> 0, i |-> 0, frame |-> NoFrame,
          pl |-> IdleRun, written |-> <<>>, skipped |-> FALSE, outcome |-> "none",
          sink |-> "none", size |-> <<0, 0>>]

InitCtl ==
    [overlay_x |-> InitOverlayXY, overlay_y |-> InitOverlayXY,
     overlay_scale |-> InitOverlayScale, overlay_opacity |-> InitOverlayOpacity,
     crop_enabled |-> FALSE, crop_x |-> 0, crop_y |-> 0,
     crop_w |-> InitCropW, crop_h |-> InitCropH]

\* setup_effects_tab, lines 195-196: the controls of the color-adjust effect
\* stand for the scalar controls of all effects
InitParams ==
    [brightness |-> InitBrightness, contrast |-> InitContrast]

\* __init__, line 44
InitOverlayParams ==
    [x |-> InitOverlayXY, y |-> InitOverlayXY, opacity |-> InitOverlayOpacity,
     scale |-> InitOverlayScale]

NoFile == [kind |-> "none"]
NoProbe == [fn |-> "none"]

\* __init__, lines 32-60, and the control variables of setup_ui
Init ==
    /\ video_cap = 0
    /\ cap_released = FALSE
    /\ cap_count = 0
    /\ cap_pos = 0
    /\ frame_count = 0
    /\ current_frame_idx = 0
    /\ current_frame = NoFrame
    /\ processed_frame = NoProcessed
    /\ is_playing = FALSE
    /\ stop_preview = FALSE
    /\ preview_thread = 0
    /\ overlay_image = FALSE
    /\ ctl = InitCtl
    /\ crop_params = [x |-> 0, y |-> 0, w |-> 0, h |-> 0, enabled |-> FALSE]
    /\ markers = <<>>
    /\ markers_listbox = <<>>
    /\ ui = UiIdleRec
    /\ th = [t \in PlayIds |-> ThOff]
    /\ ex = [e \in ExpIds |-> ExOff]
    /\ fail_budget = MaxDecodeFailures
    /\ used_released = FALSE
    /\ ctl_hist = <<InitCtl>>
    /\ effects_pipeline = <<>>
    /\ params = InitParams
    /\ overlay_params = InitOverlayParams
    /\ project_file = NoFile
    /\ tk_queue = <<>>
    /\ tk_log = <<>>
    /\ proc_faults = MaxProcFaults
    /\ probe = NoProbe

\* ------------------------------------------------------- main thread: UI
\* open_video, lines 450-451: the old capture is released first
BeginOpen(n) ==
    /\ UiIdle
    /\ video_cap < MaxOpens
    /\ cap_released' = IF video_cap # 0 THEN TRUE ELSE cap_released
    /\ ui' = [pc |-> "open_new", a |-> n]
    /\ UNCHANGED <<extVars, video_cap, cap_count, cap_pos, fail_budget, used_released,
                   frame_count, current_frame_idx, frameVars, playVars, ctlVars,
                   markerVars, th, ex>>

\* open_video, lines 453-462
OpenNew ==
    /\ ui.pc = "open_new"
    /\ video_cap' = video_cap + 1
    /\ cap_released' = FALSE
    /\ cap_count' = ui.a
    /\ frame_count' = ui.a
    /\ current_frame_idx' = 0
    /\ cap_pos' = 0
    /\ ui' = [pc |-> "open_read", a |-> 0]
    /\ UNCHANGED <<extVars, fail_budget, used_released, frameVars, playVars, ctlVars,
                   markerVars, th, ex>>

\* ret, frame = video_cap.read(); if ret: current_frame = frame;
\* update_preview_display()  -- on the main thread, for the handler at pcname
UiReadShow(pcname) ==
    /\ ui.pc = pcname
    /\ \E o \in ReadOutcomes :
          /\ CapRead(o)
          /\ current_frame' = IF o.ret THEN o.frame ELSE current_frame
          /\ processed_frame' =
                IF o.ret THEN PreviewOf(o.frame, ctl, overlay_image, processed_frame)
                ELSE processed_frame
    /\ ui' = UiIdleRec
    /\ UNCHANGED <<extVars, frame_count, current_frame_idx, playVars, ctlVars, markerVars, th, ex>>

\* open_video, lines 463-466
OpenRead == UiReadShow("open_read")

\* step_frame, lines 544-547, called by a key or a button
BeginStep(delta) ==
    /\ UiIdle
    /\ video_cap # 0
    /\ ui' = [pc |-> "step_assign",
              a |-> StepTarget(current_frame_idx, delta, frame_count)]
    /\ UNCHANGED <<extVars, capVars, frame_count, current_frame_idx, frameVars, playVars,
                   ctlVars, markerVars, th, ex>>

\* step_frame, lines 548-549
StepAssign ==
    /\ ui.pc = "step_assign"
    /\ current_frame_idx' = ui.a
    /\ ui' = IF ui.a # current_frame_idx THEN [ui EXCEPT !.pc = "step_set"]
             ELSE UiIdleRec
    /\ UNCHANGED <<extVars, capVars, frame_count, frameVars, playVars, ctlVars, markerVars, th, ex>>

\* step_frame, line 550: the index is read again from the attribute
StepSet ==
    /\ ui.pc = "step_set"
    /\ CapSet(current_frame_idx)
    /\ ui' = [ui EXCEPT !.pc = "step_read"]
    /\ UNCHANGED <<extVars, frame_count, current_frame_idx, frameVars, playVars, ctlVars,
                   markerVars, th, ex>>

\* step_frame, lines 551-555
StepRead == UiReadShow("step_read")

\* seek_frame, lines 559-564, on the index asked for: no clamp
SeekStart(cur, v) ==
    IF v # cur THEN [idx |-> v, pc |-> "seek_set"] ELSE [idx |-> cur, pc |-> "idle"]

\* seek_frame called by the timeline scale, whose range open_video sets
\* to 0..frame_count-1 (line 458)
BeginSeek(v) ==
    /\ UiIdle
    /\ video_cap # 0
    /\ v \in 0..(frame_count - 1)
    /\ LET r == SeekStart(current_frame_idx, v)
       IN /\ current_frame_idx' = r.idx
          /\ ui' = [pc |-> r.pc, a |-> IF r.pc = "idle" THEN 0 ELSE v]
    /\ UNCHANGED <<extVars, capVars, frame_count, frameVars, playVars, ctlVars, markerVars, th, ex>>

\* seek_frame, line 565: the position is the local frame_idx
SeekSet ==
    /\ ui.pc = "seek_set"
    /\ CapSet(ui.a)
    /\ ui' = [ui EXCEPT !.pc = "seek_read"]
    /\ UNCHANGED <<extVars, frame_count, current_frame_idx, frameVars, playVars, ctlVars,
                   markerVars, th, ex>>

\* seek_frame, lines 566-569
SeekRead == UiReadShow("seek_read")

Alive(t) == th[t].pc \notin {"off", "dead"}
FreeThreads == {t \in PlayIds : th[t].pc = "off"}
FirstOf(S) == CHOOSE x \in S : \A y \in S : x <= y

\* toggle_playback, lines 496-500; a pause is noted for the threads alive
BeginToggle ==
    /\ UiIdle
    /\ video_cap # 0
    /\ is_playing' = ~is_playing
    /\ th' = [t \in PlayIds |->
                IF is_playing /\ Alive(t) THEN [th[t] EXCEPT !.paused = TRUE] ELSE th[t]]
    /\ ui' = [pc |-> "toggle_branch", a |-> 0]
    /\ UNCHANGED <<extVars, capVars, frame_count, current_frame_idx, frameVars, stop_preview,
                   preview_thread, ctlVars, markerVars, ex>>

\* start_preview_thread, line 509
StartRefused == preview_thread # 0 /\ Alive(preview_thread)

\* toggle_playback with a thread started at every play: neither the test of
\* line 502 nor that of line 509
ToggleBranchUnguarded ==
    /\ ui.pc = "toggle_branch"
    /\ IF is_playing
       THEN IF FreeThreads = {}
            THEN /\ ui' = UiIdleRec
                 /\ UNCHANGED <<stop_preview, preview_thread, th>>
            ELSE /\ stop_preview' = FALSE
                 /\ preview_thread' = FirstOf(FreeThreads)
                 /\ th' = [th EXCEPT ![FirstOf(FreeThreads)] = [ThOff EXCEPT !.pc = "loop"]]
                 /\ ui' = UiIdleRec
       ELSE /\ stop_preview' = StopFlagOnPause
            /\ ui' = IF preview_thread # 0 THEN [ui EXCEPT !.pc = "join"] ELSE UiIdleRec
            /\ UNCHANGED <<preview_thread, th>>
    /\ UNCHANGED <<extVars, capVars, frame_count, current_frame_idx, frameVars, is_playing,
                   ctlVars, markerVars, ex>>

\* toggle_playback, lines 502-505, with start_preview_thread (509-515)
\* and stop_preview_thread (519-520)
ToggleBranch ==
    /\ ui.pc = "toggle_branch"
    /\ IF StartsThread(is_playing, preview_thread)
       THEN IF StartRefused \/ FreeThreads = {}
            THEN /\ ui' = UiIdleRec
                 /\ UNCHANGED <<stop_preview, preview_thread, th>>
            ELSE /\ stop_preview' = FALSE
                 /\ preview_thread' = FirstOf(FreeThreads)
                 /\ th' = [th EXCEPT ![FirstOf(FreeThreads)] = [ThOff EXCEPT !.pc = "loop"]]
                 /\ ui' = UiIdleRec
       ELSE IF ~is_playing
            THEN /\ stop_preview' = StopFlagOnPause
                 /\ ui' = IF preview_thread # 0 THEN [ui EXCEPT !.pc = "join"] ELSE UiIdleRec
                 /\ UNCHANGED <<preview_thread, th>>
            ELSE /\ ui' = UiIdleRec
                 /\ UNCHANGED <<stop_preview, preview_thread, th>>
    /\ UNCHANGED <<extVars, capVars, frame_count, current_frame_idx, frameVars, is_playing,
                   ctlVars, markerVars, ex>>

\* stop_preview_thread, line 521: join(timeout=1) returns when the thread
\* has ended or when the second is over, whichever comes first
Join ==
    /\ ui.pc = "join"
    /\ ui' = UiIdleRec
    /\ UNCHANGED <<extVars, capVars, frame_count, current_frame_idx, frameVars, playVars,
                   ctlVars, markerVars, th, ex>>

\* The values a crop control can be moved to (a sample of the scales'
\* ranges, lines 288-303)
CropChoices(f) ==
    IF f = "crop_enabled" THEN BOOLEAN
    ELSE IF f \in {"crop_x", "crop_y"} THEN {0, 1}
    ELSE IF f = "crop_w" THEN {32, InitCropW}
    ELSE {32, InitCropH}

\* update_crop_params, lines 724-728
CropParamsOf(c) ==
    [x |-> c.crop_x, y |-> c.crop_y, w |-> c.crop_w, h |-> c.crop_h,
     enabled |-> c.crop_enabled]

\* A crop control is moved: the variable changes, then update_crop_params
\* (lines 722-729) runs
CropChange(f, val) ==
    /\ UiIdle
    /\ Len(ctl_hist) <= MaxCtlChanges
    /\ val # ctl[f]
    /\ ctl' = [ctl EXCEPT ![f] = val]
    /\ crop_params' = CropParamsOf(ctl')
    /\ processed_frame' = PreviewOf(current_frame, ctl', overlay_image, processed_frame)
    /\ ctl_hist' = Append(ctl_hist, ctl')
    /\ UNCHANGED <<extVars, capVars, frame_count, current_frame_idx, current_frame, playVars,
                   overlay_image, markerVars, ui, th, ex>>

FreeExports == {e \in ExpIds : ex[e].pc = "off"}

\* export_video (877-890) and export_sequence (930-938): a worker is started
BeginExport(kind) ==
    /\ UiIdle
    /\ video_cap # 0
    /\ FreeExports # {}
    /\ ex' = [ex EXCEPT ![FirstOf(FreeExports)] = [ExOff EXCEPT !.pc = "open", !.kind = kind]]
    /\ UNCHANGED <<extVars, capVars, frame_count, current_frame_idx, frameVars, playVars,
                   ctlVars, markerVars, ui, th>>

MarkerNames == {"a", "b"}

\* sorted(self.markers, key=lambda x: x['frame']): stable
RECURSIVE SortedByFrame(_)
SortedByFrame(ms) ==
    IF ms = <<>> THEN <<>>
    ELSE LET s == SortedByFrame(SubSeq(ms, 1, Len(ms) - 1))
             m == ms[Len(ms)]
             k == Cardinality({i \in 1..Len(s) : s[i].frame <= m.frame})
         IN SubSeq(s, 1, k) \o <<m>> \o SubSeq(s, k + 1, Len(s))

\* update_markers_list, lines 842-847: the rows are the markers sorted by frame
UpdateMarkersList(ms) == SortedByFrame(ms)

\* add_marker, lines 827-834
AddMarker(name) ==
    /\ UiIdle
    /\ video_cap # 0
    /\ Len(markers) < MaxMarkers
    /\ markers' = Append(markers, [frame |-> current_frame_idx, name |-> name])
    /\ markers_listbox' = UpdateMarkersList(markers')
    /\ UNCHANGED <<extVars, capVars, frame_count, current_frame_idx, frameVars, playVars,
                   ctlVars, ui, th, ex>>

\* clear_markers, lines 836-839
ClearMarkers ==
    /\ UiIdle
    /\ markers # <<>>
    /\ markers' = <<>>
    /\ markers_listbox' = UpdateMarkersList(markers')
    /\ UNCHANGED <<extVars, capVars, frame_count, current_frame_idx, frameVars, playVars,
                   ctlVars, ui, th, ex>>

\* jump_to_marker, lines 851-856, on the k-th row of the listbox: the index
\* is set to the frame of the k-th of the sorted markers, and seek_frame is
\* then called with the index it already holds.  With fewer than k markers
\* the subscript of line 853 raises and nothing is assigned.
JumpToMarker(k) ==
    /\ UiIdle
    /\ k \in 1..Len(markers_listbox)
    /\ IF k > Len(markers)
       THEN UNCHANGED <<current_frame_idx, ui>>
       ELSE LET m == SortedByFrame(markers)[k]
                r == IF video_cap # 0 THEN SeekStart(m.frame, m.frame)
                     ELSE [idx |-> m.frame, pc |-> "idle"]
            IN /\ current_frame_idx' = r.idx
               /\ ui' = [pc |-> r.pc, a |-> IF r.pc = "idle" THEN 0 ELSE m.frame]
    /\ UNCHANGED <<extVars, capVars, frame_count, frameVars, playVars, ctlVars, markerVars, th, ex>>

\* ------------------------------------------------------- preview thread
\* preview_loop, line 527.  The two flags are read one after the other; a
\* pause writes is_playing before stop_preview, so what the loop decides is
\* what one read of both at the time of its first read decides.  The
\* iteration that starts here is late if a pause came before it.
ThLoop(t) ==
    /\ th[t].pc = "loop"
    /\ th' = [th EXCEPT ![t] =
                 IF LoopContinues(is_playing, stop_preview)
                 THEN [@ EXCEPT !.pc = "last_check", !.late = th[t].paused]
                 ELSE [@ EXCEPT !.pc = "dead"]]
    /\ UNCHANGED <<extVars, capVars, frame_count, current_frame_idx, frameVars, playVars,
                   ctlVars, markerVars, ui, ex>>

\* preview_loop, lines 530-531
ThLastCheck(t) ==
    /\ th[t].pc = "last_check"
    /\ IF AtLastFrame(current_frame_idx, frame_count)
       THEN /\ is_playing' = FALSE
            /\ th' = [th EXCEPT ![t].pc = "notify"]
       ELSE /\ th' = [th EXCEPT ![t].pc = "step"]
            /\ UNCHANGED is_playing
    /\ UNCHANGED <<extVars, capVars, frame_count, current_frame_idx, frameVars, stop_preview,
                   preview_thread, ctlVars, markerVars, ui, ex>>

\* preview_loop, lines 532-533: root.after is served by the main loop
ThNotify(t) ==
    /\ th[t].pc = "notify"
    /\ UiIdle
    /\ th' = [th EXCEPT ![t].pc = "dead"]
    /\ UNCHANGED <<extVars, capVars, frame_count, current_frame_idx, frameVars, playVars,
                   ctlVars, markerVars, ui, ex>>

\* preview_loop, line 535: step_frame(1), lines 544-547
ThStep(t) ==
    /\ th[t].pc = "step"
    /\ th' = [th EXCEPT ![t] =
                 [@ EXCEPT !.pc = "assign",
                           !.new_idx = StepTarget(current_frame_idx, 1, frame_count),
                           !.steps_after = IF th[t].paused THEN Min(2, @ + 1) ELSE @]]
    /\ UNCHANGED <<extVars, capVars, frame_count, current_frame_idx, frameVars, playVars,
                   ctlVars, markerVars, ui, ex>>

\* step_frame, lines 548-549; when nothing changes the loop sleeps (538-540)
ThAssign(t) ==
    /\ th[t].pc = "assign"
    /\ current_frame_idx' = th[t].new_idx
    /\ th' = [th EXCEPT ![t].pc =
                 IF th[t].new_idx # current_frame_idx THEN "set" ELSE "loop"]
    /\ UNCHANGED <<extVars, capVars, frame_count, frameVars, playVars, ctlVars, markerVars, ui, ex>>

\* step_frame, line 550
ThSet(t) ==
    /\ th[t].pc = "set"
    /\ CapSet(current_frame_idx)
    /\ th' = [th EXCEPT ![t].pc = "read"]
    /\ UNCHANGED <<extVars, frame_count, current_frame_idx, frameVars, playVars, ctlVars,
                   markerVars, ui, ex>>

\* step_frame, lines 551-553, and the start of update_preview_display
ThRead(t) ==
    /\ th[t].pc = "read"
    /\ \E o \in ReadOutcomes :
          /\ CapRead(o)
          /\ current_frame' = IF o.ret THEN o.frame ELSE current_frame
          /\ th' = [th EXCEPT ![t] =
                       IF o.ret
                       THEN [@ EXCEPT !.pc = "pipe", !.frame = o.frame,
                                      !.pl = NewRun(overlay_image)]
                       ELSE [@ EXCEPT !.pc = "loop"]]
    /\ UNCHANGED <<extVars, frame_count, current_frame_idx, processed_frame, playVars,
                   ctlVars, markerVars, ui, ex>>

\* update_preview_display, line 638: the pipeline reads one control variable
\* (a Tk call); after the last one processed_frame is set, the preview is
\* shown (554-555) and the loop sleeps (538-540)
ThPipe(t) ==
    /\ th[t].pc = "pipe"
    /\ UiIdle
    /\ LET pl == PipeRead(th[t].pl)
       IN IF PipeDone(pl)
          THEN /\ processed_frame' = ApplyEffects(th[t].frame, pl.v, pl.has_ov)
               /\ th' = [th EXCEPT ![t] = [@ EXCEPT !.pc = "loop", !.pl = pl]]
          ELSE /\ th' = [th EXCEPT ![t].pl = pl]
               /\ UNCHANGED processed_frame
    /\ UNCHANGED <<extVars, capVars, frame_count, current_frame_idx, current_frame, playVars,
                   ctlVars, markerVars, ui, ex>>

\* --------------------------------------------------------- export workers
\* root.after(0, f) called by a worker: f is appended to the main loop's
\* callbacks, which run in the order they were registered
After(q, calls) == q \o calls

\* The size of the frames the decoder yields for the sample videos
VideoSize == <<640, 480>>

\* _export_video_worker, lines 895-900: the size the video writer is opened
\* with is the source's, or the crop's width and height if crop is enabled
SinkSize(c) == IF c.crop_enabled THEN <<c.crop_w, c.crop_h>> ELSE VideoSize

\* _export_video_worker, lines 896-907 (crop_enabled, crop_w, crop_h are Tk
\* reads; the VideoWriter is opened); _export_sequence_worker, line 943
ExOpen(e) ==
    /\ ex[e].pc = "open"
    /\ UiIdle
    /\ ex' = [ex EXCEPT ![e] =
                 [@ EXCEPT !.pc = "range",
                           !.sink = IF ex[e].kind = "video" THEN "open" ELSE "none",
                           !.size = IF ex[e].kind = "video" THEN SinkSize(ctl) ELSE @]]
    /\ tk_queue' = After(tk_queue, <<[e |-> e, what |-> "status", text |-> "exporting"]>>)
    /\ UNCHANGED <<projVars, tk_log, proc_faults, probe, capVars, frame_count,
                   current_frame_idx, frameVars, playVars, ctlVars, markerVars, ui, th>>

\* lines 910 / 945: range(self.frame_count) is evaluated once
ExRange(e) ==
    /\ ex[e].pc = "range"
    /\ ex' = [ex EXCEPT ![e] =
                 [@ EXCEPT !.n = frame_count, !.i = 0,
                           !.pc = IF frame_count > 0 THEN "set" ELSE "finish"]]
    /\ UNCHANGED <<extVars, capVars, frame_count, current_frame_idx, frameVars, playVars,
                   ctlVars, markerVars, ui, th>>

\* lines 911 / 946
ExSet(e) ==
    /\ ex[e].pc = "set"
    /\ CapSet(ex[e].i)
    /\ ex' = [ex EXCEPT ![e].pc = "read"]
    /\ UNCHANGED <<extVars, frame_count, current_frame_idx, frameVars, playVars, ctlVars,
                   markerVars, ui, th>>

\* lines 912-914 / 947-949: a frame that could not be read is passed over
ExRead(e) ==
    /\ ex[e].pc = "read"
    /\ \E o \in ReadOutcomes :
          /\ CapRead(o)
          /\ ex' = [ex EXCEPT ![e] =
                       IF o.ret
                       THEN [@ EXCEPT !.pc = "pipe", !.frame = o.frame,
                                      !.pl = NewRun(overlay_image)]
                       ELSE [@ EXCEPT !.pc = "progress", !.skipped = TRUE]]
    /\ UNCHANGED <<extVars, frame_count, current_frame_idx, frameVars, playVars, ctlVars,
                   markerVars, ui, th>>

\* lines 915-916 / 950-953: the pipeline reads one control variable; after
\* the last one the processed frame is written to the sink
ExPipe(e) ==
    /\ ex[e].pc = "pipe"
    /\ UiIdle
    /\ LET pl == PipeRead(ex[e].pl)
       IN ex' = [ex EXCEPT ![e] =
                    IF PipeDone(pl)
                    THEN [@ EXCEPT !.pc = "progress", !.pl = pl,
                                   !.written = Append(@, ApplyEffects(ex[e].frame, pl.v,
                                                                      pl.has_ov))]
                    ELSE [@ EXCEPT !.pl = pl]]
    /\ UNCHANGED <<extVars, capVars, frame_count, current_frame_idx, frameVars, playVars,
                   ctlVars, markerVars, ui, th>>

\* lines 915-916 / 950-953: a cv2 call of the pipeline, or the write, raises;
\* control passes to the except clause (926 / 962)
ExPipeRaises(e) ==
    /\ ex[e].pc = "pipe"
    /\ proc_faults > 0
    /\ proc_faults' = proc_faults - 1
    /\ ex' = [ex EXCEPT ![e].pc = "except"]
    /\ UNCHANGED <<projVars, tkVars, probe, capVars, frame_count, current_frame_idx,
                   frameVars, playVars, ctlVars, markerVars, ui, th>>

\* frame_idx / self.frame_count * 100, lines 919 / 956, kept as a fraction
ProgressValue(i, fc) == [num |-> i * 100, den |-> fc]

\* lines 919-920 / 956-957: frame_count is read again for the division, which
\* raises when it is 0 by now; then root.after, and the next turn of the loop
ExProgress(e) ==
    /\ ex[e].pc = "progress"
    /\ UiIdle
    /\ IF frame_count = 0
       THEN /\ ex' = [ex EXCEPT ![e].pc = "except"]
            /\ UNCHANGED tk_queue
       ELSE /\ ex' = [ex EXCEPT ![e] =
                        [@ EXCEPT !.i = @ + 1,
                                  !.pc = IF ex[e].i + 1 < ex[e].n THEN "set" ELSE "finish"]]
            /\ tk_queue' = After(tk_queue,
                                 <<[e |-> e, what |-> "progress", i |-> ex[e].i,
                                    value |-> ProgressValue(ex[e].i, frame_count)]>>)
    /\ UNCHANGED <<projVars, tk_log, proc_faults, probe, capVars, frame_count,
                   current_frame_idx, frameVars, playVars, ctlVars, markerVars, ui, th>>

\* lines 922-924 / 959-960: the video writer is released, then the status
\* and the reset of the progress indicator are registered
ExFinish(e) ==
    /\ ex[e].pc = "finish"
    /\ UiIdle
    /\ ex' = [ex EXCEPT ![e] =
                 [@ EXCEPT !.pc = "done", !.outcome = "complete",
                           !.sink = IF @ = "open" THEN "closed" ELSE @]]
    /\ tk_queue' = After(tk_queue, <<[e |-> e, what |-> "status", text |-> "complete"],
                                     [e |-> e, what |-> "reset"]>>)
    /\ UNCHANGED <<projVars, tk_log, proc_faults, probe, capVars, frame_count,
                   current_frame_idx, frameVars, playVars, ctlVars, markerVars, ui, th>>

\* the except clause, lines 926-928 / 962-964: the error box and the status
\* are registered; nothing is released
ExExcept(e) ==
    /\ ex[e].pc = "except"
    /\ UiIdle
    /\ ex' = [ex EXCEPT ![e] = [@ EXCEPT !.pc = "done", !.outcome = "failed"]]
    /\ tk_queue' = After(tk_queue, <<[e |-> e, what |-> "error"],
                                     [e |-> e, what |-> "status", text |-> "failed"]>>)
    /\ UNCHANGED <<projVars, tk_log, proc_faults, probe, capVars, frame_count,
                   current_frame_idx, frameVars, playVars, ctlVars, markerVars, ui, th>>

\* root.mainloop(), line 1049: between two handlers the main loop runs the
\* oldest registered callback
TkDeliver ==
    /\ UiIdle
    /\ tk_queue # <<>>
    /\ tk_log' = Append(tk_log, Head(tk_queue))
    /\ tk_queue' = Tail(tk_queue)
    /\ UNCHANGED <<projVars, proc_faults, probe, capVars, frame_count, current_frame_idx,
                   frameVars, playVars, ctlVars, markerVars, ui, th, ex>>

\* ------------------------------------------------ effect list and project
EffectTypes == {"canny", "gaussian_blur", "color_adjust", "text"}

\* add_effect, lines 664-667
AddEffect(type) ==
    /\ UiIdle
    /\ Len(effects_pipeline) < MaxEffects
    /\ effects_pipeline' = Append(effects_pipeline, [type |-> type, enabled |-> TRUE])
    /\ processed_frame' = PreviewOf(current_frame, ctl, overlay_image, processed_frame)
    /\ UNCHANGED <<params, overlay_params, project_file, tkVars, proc_faults, probe,
                   capVars, frame_count, current_frame_idx, current_frame, playVars,
                   ctlVars, markerVars, ui, th, ex>>

\* The values an effect's scale can be moved to (a sample of the ranges,
\* lines 200-204)
ParamChoices(f) ==
    IF f = "brightness" THEN {-100, InitBrightness}
    ELSE {InitContrast, 3}

\* An effect's scale is moved: the variable changes, then update_preview
\* (lines 656-659) runs
ParamChange(f, val) ==
    /\ UiIdle
    /\ val # params[f]
    /\ params' = [params EXCEPT ![f] = val]
    /\ processed_frame' = PreviewOf(current_frame, ctl, overlay_image, processed_frame)
    /\ UNCHANGED <<effects_pipeline, overlay_params, project_file, tkVars, proc_faults,
                   probe, capVars, frame_count, current_frame_idx, current_frame,
                   playVars, ctlVars, markerVars, ui, th, ex>>

OverlayFields == {"overlay_x", "overlay_y", "overlay_opacity", "overlay_scale"}

\* A sample of the overlay scales' ranges, lines 239-251
OverlayChoices(f) ==
    IF f \in {"overlay_x", "overlay_y"} THEN {0, InitOverlayXY}
    ELSE IF f = "overlay_opacity" THEN {50, InitOverlayOpacity}
    ELSE {InitOverlayScale, 20}

\* update_overlay_params, lines 715-718
OverlayParamsOf(c) ==
    [x |-> c.overlay_x, y |-> c.overlay_y, opacity |-> c.overlay_opacity,
     scale |-> c.overlay_scale]

\* An overlay control is moved: the variable changes, then
\* update_overlay_params (lines 713-719) runs
OverlayChange(f, val) ==
    /\ UiIdle
    /\ Len(ctl_hist) <= MaxCtlChanges
    /\ val # ctl[f]
    /\ ctl' = [ctl EXCEPT ![f] = val]
    /\ overlay_params' = OverlayParamsOf(ctl')
    /\ processed_frame' = PreviewOf(current_frame, ctl', overlay_image, processed_frame)
    /\ ctl_hist' = Append(ctl_hist, ctl')
    /\ UNCHANGED <<effects_pipeline, params, project_file, tkVars, proc_faults, probe,
                   capVars, frame_count, current_frame_idx, current_frame, playVars,
                   overlay_image, crop_params, markerVars, ui, th, ex>>

\* What a pipeline run reads: the effect list, the effects' scalar controls
\* (lines 578-595) and the overlay and crop controls (602-603, 613-615)
EffectiveConfig ==
    [effects |-> effects_pipeline, params |-> params,
     crop |-> CropParamsOf(ctl), overlay |-> OverlayParamsOf(ctl)]

ProjectKeys == {"effects_pipeline", "overlay_params", "crop_params", "markers", "parameters"}

\* save_project, lines 977-995: the document json.dump writes.  from_save and
\* effective are history: what the pipeline read when the document was saved.
SavedDoc ==
    [kind |-> "project", keys |-> ProjectKeys,
     effects_pipeline |-> effects_pipeline, overlay_params |-> overlay_params,
     crop_params |-> crop_params, markers |-> markers,
     params_is_map |-> TRUE, parameters |-> params,
     from_save |-> TRUE, effective |-> EffectiveConfig]

SaveProject ==
    /\ UiIdle
    /\ project_file' = SavedDoc
    /\ UNCHANGED <<effects_pipeline, params, overlay_params, tkVars, proc_faults, probe,
                   capVars, frame_count, current_frame_idx, frameVars, playVars, ctlVars,
                   markerVars, ui, th, ex>>

\* Documents that reach the disk some other way: one that is not JSON, an
\* empty object, and one whose 'parameters' value is a list
OtherDoc(kind, keys, is_map) ==
    [kind |-> kind, keys |-> keys,
     effects_pipeline |-> <<[type |-> "text", enabled |-> TRUE]>>,
     overlay_params |-> [x |-> 0, y |-> 0, opacity |-> 50, scale |-> 20],
     crop_params |-> [x |-> 1, y |-> 1, w |-> 32, h |-> 32, enabled |-> TRUE],
     markers |-> <<>>,
     params_is_map |-> is_map, parameters |-> InitParams,
     from_save |-> FALSE, effective |-> EffectiveConfig]

OtherDocs ==
    {[OtherDoc("malformed", {}, TRUE) EXCEPT !.effective = 0],
     [OtherDoc("project", {}, TRUE) EXCEPT !.effective = 0],
     [OtherDoc("project", ProjectKeys, FALSE) EXCEPT !.effective = 0]}

FileAppears(doc) ==
    /\ project_file # doc
    /\ project_file' = doc
    /\ UNCHANGED <<effects_pipeline, params, overlay_params, tkVars, proc_faults, probe,
                   capVars, frame_count, current_frame_idx, frameVars, playVars, ctlVars,
                   markerVars, ui, th, ex>>

\* project_data.get(key, default), lines 1016-1022
DocGet(doc, key, default) == IF key \in doc.keys THEN doc[key] ELSE default

\* load_project raises before its end: json.load on a document that is not
\* JSON (line 1013), params.get on a value that is no map (line 1023)
LoadRaises(doc) == doc.kind = "malformed" \/ ~doc.params_is_map

\* load_project, lines 1010-1041.  The assignments of lines 1016-1019 are
\* made before 'parameters' is looked at; the except clause (1040-1041)
\* shows the error and restores nothing.  A document with no 'parameters'
\* gives every scalar control its default (1023-1030).
LoadProject ==
    /\ UiIdle
    /\ project_file.kind # "none"
    /\ IF project_file.kind = "malformed"
       THEN UNCHANGED <<effects_pipeline, overlay_params, crop_params, markerVars, params,
                        processed_frame>>
       ELSE /\ effects_pipeline' = DocGet(project_file, "effects_pipeline", <<>>)
            /\ overlay_params' = DocGet(project_file, "overlay_params", overlay_params)
            /\ crop_params' = DocGet(project_file, "crop_params", crop_params)
            /\ markers' = DocGet(project_file, "markers", <<>>)
            /\ IF LoadRaises(project_file)
               THEN UNCHANGED <<params, processed_frame, markers_listbox>>
               ELSE /\ params' = DocGet(project_file, "parameters", InitParams)
                    /\ markers_listbox' = UpdateMarkersList(markers')
                    /\ processed_frame' =
                          PreviewOf(current_frame, ctl, overlay_image, processed_frame)
    /\ UNCHANGED <<project_file, tkVars, proc_faults, probe, capVars, frame_count,
                   current_frame_idx, current_frame, playVars, overlay_image, ctl,
                   ctl_hist, ui, th, ex>>

\* ------------------------------------------------- the pipeline's functions
\* The functions the pipeline applies to a frame, on frames that have a size.
\* Each is observed through a call on inputs drawn from samples of the
\* controls' ranges; probe keeps the inputs and the result of the one call
\* that is observed in a run.
Unobserved == probe.fn = "none"

ProbeUnchanged ==
    UNCHANGED <<projVars, tkVars, proc_faults, capVars, frame_count, current_frame_idx,
                frameVars, playVars, ctlVars, markerVars, ui, th, ex>>

\* Frame sizes (width, height) of videos
FrameSizes == {<<320, 240>>, <<640, 480>>, <<1920, 1080>>}

\* Values of the crop scales, lines 291-303
CropXYSamples == {0, 1, 320, 1920}
CropWSamples == {32, InitCropW, 1920}
CropHSamples == {32, InitCropH, 1080}

\* a[start:stop] on an axis of length n: both ends are brought into 0..n
SliceNorm(i, n) == IF i < 0 THEN Max(0, i + n) ELSE Min(i, n)
SliceSpan(n, start, stop) ==
    [lo |-> SliceNorm(start, n), hi |-> Max(SliceNorm(start, n), SliceNorm(stop, n))]

\* processed[y:y+h, x:x+w], line 604: the part of the frame that is cut out
CropSlice(fw, fh, x, y, w, h) ==
    LET cols == SliceSpan(fw, x, x + w)
        rows == SliceSpan(fh, y, y + h)
    IN [x0 |-> cols.lo, y0 |-> rows.lo, w |-> cols.hi - cols.lo, h |-> rows.hi - rows.lo]

\* The width and height of a pipeline result made from a decoded frame:
\* the frame's, or with crop the slice's (lines 601-606)
ResultSize(p) ==
    IF p.crop = <<>> THEN VideoSize
    ELSE LET r == CropSlice(VideoSize[1], VideoSize[2], p.crop[1], p.crop[2],
                            p.crop[3], p.crop[4])
         IN <<r.w, r.h>>

\* The crop of lines 602-604 on a frame of a given size; nothing is checked
\* and nothing raises
CropProbe(size, x, y, w, h) ==
    /\ UiIdle
    /\ Unobserved
    /\ probe' = [fn |-> "crop", fw |-> size[1], fh |-> size[2],
                 x |-> x, y |-> y, w |-> w, h |-> h, raised |-> FALSE,
                 out |-> CropSlice(size[1], size[2], x, y, w, h)]
    /\ ProbeUnchanged

CropProbes ==
    /\ Unobserved
    /\ \E size \in FrameSizes : \E x, y \in CropXYSamples :
          \E w \in CropWSamples : \E h \in CropHSamples : CropProbe(size, x, y, w, h)

\* The aspect ratio buttons, lines 312-315
AspectPresets == {<<16, 9>>, <<9, 16>>, <<1, 1>>, <<4, 3>>}

\* set_aspect_ratio, lines 739-750; int() of a positive quotient is its floor
AspectRect(fw, fh, rw, rh) ==
    IF fw * rh > rw * fh
    THEN [x |-> (fw - (fh * rw) \div rh) \div 2, y |-> 0, w |-> (fh * rw) \div rh, h |-> fh]
    ELSE [x |-> 0, y |-> (fh - (fw * rh) \div rw) \div 2, w |-> fw, h |-> (fw * rh) \div rw]

\* line 733, 'not self.current_frame' on a frame that is loaded: the truth
\* value of an array of more than one element raises ValueError
FrameTruthRaises == TRUE

\* set_aspect_ratio, lines 731-757, on a current frame of the given size.
\* With no frame it returns (733-734).  The crop variables are set directly,
\* so update_crop_params does not run.
SetAspectRatio(rw, rh, size) ==
    /\ UiIdle
    /\ probe' = [fn |-> "set_aspect_ratio", rw |-> rw, rh |-> rh,
                 fw |-> size[1], fh |-> size[2], loaded |-> current_frame # NoFrame,
                 raised |-> (current_frame # NoFrame /\ FrameTruthRaises)]
    /\ IF current_frame = NoFrame \/ FrameTruthRaises
       THEN UNCHANGED <<ctl, ctl_hist, processed_frame>>
       ELSE LET r == AspectRect(size[1], size[2], rw, rh)
            IN /\ ctl' = [ctl EXCEPT !.crop_x = r.x, !.crop_y = r.y, !.crop_w = r.w,
                                     !.crop_h = r.h, !.crop_enabled = TRUE]
               /\ ctl_hist' = Append(ctl_hist, ctl')
               /\ processed_frame' =
                     PreviewOf(current_frame, ctl', overlay_image, processed_frame)
    /\ UNCHANGED <<projVars, tkVars, proc_faults, capVars, frame_count, current_frame_idx,
                   current_frame, playVars, overlay_image, crop_params, markerVars, ui, th, ex>>

AspectActs ==
    \E r \in AspectPresets : \E size \in FrameSizes : SetAspectRatio(r[1], r[2], size)

\* cvRound of the quotient n / d of naturals: to the nearest, ties to even
RoundHalfEven(n, d) ==
    LET q == n \div d
        r == n % d
    IN IF 2 * r < d THEN q
       ELSE IF 2 * r > d THEN q + 1
       ELSE IF q % 2 = 0 THEN q ELSE q + 1

\* A small frame with pixels that differ from one another, and the pixel
\* value of a uniform overlay image
SmallFrame(fw, fh) ==
    [w |-> fw, h |-> fh, px |-> [c \in 0..(fw - 1), r \in 0..(fh - 1) |-> 10 + c + 3 * r]]
OverlayPixel == 200

\* Values of the overlay scales (lines 239-251), opacity in percent and
\* scale in tenths, and offsets around a small frame
OverlayScaleSamples == {5, InitOverlayScale, 20}
OverlayOpacitySamples == {0, 50, InitOverlayOpacity}
OverlayOffsets == (-1)..(MaxSide + 1)

\* cv2.resize(overlay_image, None, fx=scale, fy=scale), lines 618-619
ScaledSide(side, scale) == RoundHalfEven(side * scale, 10)

\* line 622 with the edges counted as outside
OverlayOutsideOrTouching(x, y, w, h, fw, fh) ==
    x + w >= fw \/ y + h >= fh \/ x <= 0 \/ y <= 0

\* line 622
OverlayOutside(x, y, w, h, fw, fh) == x + w > fw \/ y + h > fh \/ x < 0 \/ y < 0

\* cv2.addWeighted(roi, 1-opacity, overlay, opacity, 0), line 627, on a pixel
BlendPixel(roi, ov, opacity) ==
    Min(255, RoundHalfEven(roi * (100 - opacity) + ov * opacity, 100))

\* apply_overlay, lines 613-630, on a frame buffer's content.  cv2.resize
\* raises when the scaled image would have no pixels.
ApplyOverlay(frame, ow, oh, x, y, scale, opacity) ==
    LET w == ScaledSide(ow, scale)
        h == ScaledSide(oh, scale)
    IN IF w = 0 \/ h = 0
       THEN [raised |-> TRUE, w |-> w, h |-> h, frame |-> frame]
       ELSE IF OverlayOutside(x, y, w, h, frame.w, frame.h)
       THEN [raised |-> FALSE, w |-> w, h |-> h, frame |-> frame]
       ELSE [raised |-> FALSE, w |-> w, h |-> h,
             frame |-> [frame EXCEPT !.px =
                           [c \in 0..(frame.w - 1), r \in 0..(frame.h - 1) |->
                               IF c \in x..(x + w - 1) /\ r \in y..(y + h - 1)
                               THEN BlendPixel(frame.px[c, r], OverlayPixel, opacity)
                               ELSE frame.px[c, r]]]]

OverlayProbe(fw, fh, ow, oh, x, y, scale, opacity) ==
    /\ UiIdle
    /\ Unobserved
    /\ LET res == ApplyOverlay(SmallFrame(fw, fh), ow, oh, x, y, scale, opacity)
       IN probe' = [fn |-> "overlay", x |-> x, y |-> y, w |-> res.w, h |-> res.h,
                    opacity |-> opacity, raised |-> res.raised,
                    in |-> SmallFrame(fw, fh), out |-> res.frame]
    /\ ProbeUnchanged

OverlayProbes ==
    /\ Unobserved
    /\ \E fw, fh, ow, oh \in 1..MaxSide : \E x, y \in OverlayOffsets :
          \E scale \in OverlayScaleSamples : \E opacity \in OverlayOpacitySamples :
              OverlayProbe(fw, fh, ow, oh, x, y, scale, opacity)

\* Channel values, and whole values of the contrast (0..3) and brightness
\* (-100..100) scales, lines 200-204
ChannelSamples == {0, 1, 50, 127, 128, 254, 255}
ContrastSamples == 0..3
BrightnessSamples == {-100, -1, InitBrightness, 1, 100}

Abs(n) == IF n < 0 THEN -n ELSE n

\* cv2.convertScaleAbs(processed, alpha=contrast, beta=brightness), line 591,
\* on one channel value: scaled, the absolute value taken, saturated to 8 bits
ConvertScaleAbs(v, alpha, beta) == Min(255, Abs(v * alpha + beta))

ColorProbe(v, contrast, brightness) ==
    /\ UiIdle
    /\ Unobserved
    /\ probe' = [fn |-> "color_adjust", v |-> v, contrast |-> contrast,
                 brightness |-> brightness,
                 out |-> ConvertScaleAbs(v, contrast, brightness)]
    /\ ProbeUnchanged

ColorProbes ==
    /\ Unobserved
    /\ \E v \in ChannelSamples : \E contrast \in ContrastSamples :
          \E brightness \in BrightnessSamples : ColorProbe(v, contrast, brightness)

\* load_overlay (lines 698-704) and clear_overlay (708-711)
SetOverlayImage(loaded) ==
    /\ UiIdle
    /\ overlay_image # loaded
    /\ overlay_image' = loaded
    /\ processed_frame' = PreviewOf(current_frame, ctl, loaded, processed_frame)
    /\ UNCHANGED <<extVars, capVars, frame_count, current_frame_idx, current_frame,
                   playVars, ctl, crop_params, ctl_hist, markerVars, ui, th, ex>>

\* ------------------------------------------------ the pipeline on buffers
\* A run of apply_effects_pipeline at the level of the arrays it touches.
\* The heap is the sequence of arrays; an array is its size and what was
\* done to the pixels of its source.  Buffer 1 is the frame passed in,
\* buffer 2 the overlay image.
FrameBuffer == 1
OverlayBuffer == 2

NewArray(heap, content) == [heap |-> Append(heap, content), buf |-> Len(heap) + 1]

\* processed = frame, with no copy
AliasFrame(heap, b) == [heap |-> heap, buf |-> b]

\* processed = frame.copy(), line 576
CopyFrame(heap, b) == NewArray(heap, heap[b])

Done(content, type, args) ==
    [content EXCEPT !.ops = Append(@, [type |-> type, args |-> args])]

\* One effect of the loop, lines 579-595: canny, blur and color-adjust bind
\* processed to a new array; cv2.putText draws into the array it is given
ApplyEffect(st, effect, p) ==
    IF effect.type = "text"
    THEN [st EXCEPT !.heap[st.buf] = Done(@, "text", <<>>)]
    ELSE IF effect.type = "color_adjust"
    THEN NewArray(st.heap, Done(st.heap[st.buf], "color_adjust",
                                <<p.contrast, p.brightness>>))
    ELSE NewArray(st.heap, Done(st.heap[st.buf], effect.type, <<>>))

RECURSIVE ApplyEffectList(_, _, _)
ApplyEffectList(st, effects, p) ==
    IF effects = <<>> THEN st
    ELSE ApplyEffectList(ApplyEffect(st, Head(effects), p), Tail(effects), p)

\* apply_overlay on the array it is given, lines 613-630: the scaled overlay
\* is a new array; inside the bounds the blend is stored into the frame
\* array itself (line 628)
OverlayInPlace(st, c) ==
    LET frame == st.heap[st.buf]
        w == ScaledSide(st.heap[OverlayBuffer].w, c.overlay_scale)
        h == ScaledSide(st.heap[OverlayBuffer].h, c.overlay_scale)
    IN IF OverlayOutside(c.overlay_x, c.overlay_y, w, h, frame.w, frame.h)
       THEN st
       ELSE [st EXCEPT !.heap[st.buf] =
                Done(@, "overlay", <<c.overlay_x, c.overlay_y, w, h, c.overlay_opacity>>)]

\* apply_effects_pipeline, lines 576-606: the heap afterwards and what is
\* returned, an array or (line 604) a view into one
RunPipeline(heap, effects, p, c, has_ov) ==
    LET s1 == ApplyEffectList(CopyFrame(heap, FrameBuffer), effects, p)
        s2 == IF has_ov THEN OverlayInPlace(s1, c) ELSE s1
        arr == s2.heap[s2.buf]
    IN [heap |-> s2.heap,
        out |-> [content |-> arr,
                 view |-> IF c.crop_enabled
                          THEN CropSlice(arr.w, arr.h, c.crop_x, c.crop_y, c.crop_w, c.crop_h)
                          ELSE [x0 |-> 0, y0 |-> 0, w |-> arr.w, h |-> arr.h]]]

\* Sizes of the image load_overlay (line 698) reads: one that fits into
\* every frame and one that fits into none
OverlayImageSizes == {<<64, 64>>, <<2000, 2000>>}

\* The arrays before a run: a frame of the given size and an overlay image
HeapWith(fw, fh, ow, oh) ==
    <<[w |-> fw, h |-> fh, src |-> "frame", ops |-> <<>>],
      [w |-> ow, h |-> oh, src |-> "overlay", ops |-> <<>>]>>

\* The pipeline is run twice on one frame array, as update_preview_display
\* (line 638) does on current_frame at every change of a control: what is
\* observed is whether the first run left the frame and the overlay image as
\* they were and whether the second run returned what the first returned.
PipelineRuns(fw, fh, ow, oh) ==
    /\ UiIdle
    /\ LET h0 == HeapWith(fw, fh, ow, oh)
           r1 == RunPipeline(h0, effects_pipeline, params, ctl, overlay_image)
           r2 == RunPipeline(r1.heap, effects_pipeline, params, ctl, overlay_image)
       IN probe' = [fn |-> "pipeline",
                    drawn |-> (\E i \in 1..Len(r1.out.content.ops) :
                                  r1.out.content.ops[i].type \in {"text", "overlay"}),
                    frame_kept |-> (r1.heap[FrameBuffer] = h0[FrameBuffer]),
                    overlay_kept |-> (r1.heap[OverlayBuffer] = h0[OverlayBuffer]),
                    same_output |-> (r2.out = r1.out)]
    /\ ProbeUnchanged

\* ---------------------------------------------------------- specifications
OpenActs == (\E n \in FrameCounts : BeginOpen(n)) \/ OpenNew \/ OpenRead
StepActs == (\E d \in StepDeltas : BeginStep(d)) \/ StepAssign \/ StepSet \/ StepRead
SeekActs == (\E v \in 0..(MaxFrames - 1) : BeginSeek(v)) \/ SeekSet \/ SeekRead
ToggleActs == BeginToggle \/ ToggleBranch \/ Join
ThreadActs ==
    \E t \in PlayIds :
        \/ ThLoop(t) \/ ThLastCheck(t) \/ ThNotify(t) \/ ThStep(t)
        \/ ThAssign(t) \/ ThSet(t) \/ ThRead(t) \/ ThPipe(t)
ExportActs ==
    \/ \E k \in ExportKinds : BeginExport(k)
    \/ \E e \in ExpIds :
          \/ ExOpen(e) \/ ExRange(e) \/ ExSet(e) \/ ExRead(e)
          \/ ExPipe(e) \/ ExProgress(e) \/ ExFinish(e)
          \/ ExPipeRaises(e) \/ ExExcept(e)
    \/ TkDeliver
CropActs == \E f \in CropFields : \E val \in CropChoices(f) : CropChange(f, val)
MarkerActs ==
    \/ \E name \in MarkerNames : AddMarker(name)
    \/ ClearMarkers
    \/ \E k \in 1..MaxMarkers : JumpToMarker(k)

\* open_video while no video is loaded
BeginOpenFirst(n) == video_cap = 0 /\ BeginOpen(n)
OpenFirstActs == (\E n \in FrameCounts : BeginOpenFirst(n)) \/ OpenNew \/ OpenRead

\* Playback with the main thread opening videos, stepping, seeking and
\* toggling beside it
NextPlay == OpenActs \/ StepActs \/ SeekActs \/ ToggleActs \/ ThreadActs
SpecPlay == Init /\ [][NextPlay]_vars

\* One video, and after it is loaded only step calls: from the keys and
\* buttons, and from the preview thread
NextStep == OpenFirstActs \/ StepActs \/ ToggleActs \/ ThreadActs
SpecStep == Init /\ [][NextStep]_vars

\* Seeking and markers, with videos opened one after the other
NextSeek == OpenActs \/ SeekActs \/ MarkerActs
SpecSeek == Init /\ [][NextSeek]_vars

\* An export worker running the pipeline while crop controls are moved
NextCrop == OpenFirstActs \/ CropActs \/ ExportActs
SpecCrop == Init /\ [][NextCrop]_vars

\* Playback that is never paused: the user presses play only while the
\* controller is Stopped and steps only while it is Stopped.  Every handler
\* of the main thread runs to its end, and a thread's step that waits for
\* the main loop is served once the main loop is idle again.
BeginPlay == ~is_playing /\ BeginToggle
BeginStepStopped(d) == ~is_playing /\ BeginStep(d)
UiFinish == OpenNew \/ OpenRead \/ StepAssign \/ StepSet \/ StepRead \/ ToggleBranch
NextUnpaused ==
    \/ \E n \in FrameCounts : BeginOpenFirst(n)
    \/ \E d \in StepDeltas : BeginStepStopped(d)
    \/ BeginPlay
    \/ UiFinish
    \/ ThreadActs
SpecUnpaused ==
    Init /\ [][NextUnpaused]_vars /\ WF_vars(UiFinish) /\ SF_vars(ThreadActs)

\* The effect list, the controls and the project file
EffectActs ==
    \/ \E type \in EffectTypes : AddEffect(type)
    \/ \E f \in DOMAIN InitParams : \E val \in ParamChoices(f) : ParamChange(f, val)
OverlayActs == \E f \in OverlayFields : \E val \in OverlayChoices(f) : OverlayChange(f, val)
ProjectActs == SaveProject \/ (\E doc \in OtherDocs : FileAppears(doc)) \/ LoadProject
ProjectCropActs ==
    \E f \in {"crop_enabled", "crop_x"} : \E val \in CropChoices(f) : CropChange(f, val)
ProjectOverlayActs == \E val \in OverlayChoices("overlay_x") : OverlayChange("overlay_x", val)
NextProject == EffectActs \/ ProjectCropActs \/ ProjectOverlayActs \/ ProjectActs
SpecProject == Init /\ [][NextProject]_vars

\* The pipeline's functions on sampled inputs, with a video opened
NextPipeline ==
    OpenFirstActs \/ CropProbes \/ AspectActs \/ OverlayProbes \/ ColorProbes
SpecPipeline == Init /\ [][NextPipeline]_vars

\* Pipeline runs under changes of the effect list, the controls and the overlay
OverlayImageActs == \E loaded \in BOOLEAN : SetOverlayImage(loaded)
RunActs ==
    \E size \in FrameSizes : \E ov \in OverlayImageSizes :
        PipelineRuns(size[1], size[2], ov[1], ov[2])
RunCropActs == \E val \in BOOLEAN : CropChange("crop_enabled", val)
NextRun == EffectActs \/ RunCropActs \/ ProjectOverlayActs \/ OverlayImageActs \/ RunActs
SpecRun == Init /\ [][NextRun]_vars

\* The export workers with the main thread opening videos, stepping and
\* seeking beside them
NextExport == OpenActs \/ StepActs \/ SeekActs \/ ExportActs
SpecExport == Init /\ [][NextExport]_vars

\* Markers added, cleared, loaded and selected, with one video stepped through
NextMarkers == OpenFirstActs \/ StepActs \/ MarkerActs \/ ProjectActs
SpecMarkers == Init /\ [][NextMarkers]_vars

\* The whole program
Next ==
    \/ OpenActs \/ StepActs \/ SeekActs \/ ToggleActs \/ ThreadActs
    \/ ExportActs \/ CropActs \/ MarkerActs
    \/ EffectActs \/ OverlayActs \/ OverlayImageActs \/ ProjectActs
    \/ AspectActs \/ CropProbes \/ OverlayProbes \/ ColorProbes \/ RunActs

Spec == Init /\ [][Next]_vars

\* ------------------------------------------------------------------ claims
ExportDone(e) == ex[e].pc = "done"

\* C1: an export over a source of N frames writes exactly N frames, the k-th
\* being the pipeline result of source frame k, whatever the main thread
\* steps or seeks meanwhile (here: with a decoder that never failed on a
\* readable position and a source that was not replaced).
C1_ExportWritesEveryFrameInOrder ==
    \A e \in ExpIds :
        (ExportDone(e) /\ fail_budget = MaxDecodeFailures /\ video_cap = 1)
        => /\ Len(ex[e].written) = ex[e].n
           /\ \A k \in 1..Len(ex[e].written) : ex[e].written[k].src = k - 1

\* C2: an export in which a frame could not be fetched stops at that frame
\* and never ends with the status 'complete'.
C2_FailedExportStopsAndFails ==
    \A e \in ExpIds :
        ex[e].skipped => /\ ex[e].outcome # "complete"
                         /\ ex[e].pc \notin {"set", "read", "pipe"}

\* The units that have set a position on the handle and not yet read
ReadPending ==
    (IF ui.pc \in {"step_read", "seek_read"} THEN {<<"ui", 0>>} ELSE {})
    \cup {<<"th", t>> : t \in {u \in PlayIds : th[u].pc = "read"}}
    \cup {<<"ex", e>> : e \in {u \in ExpIds : ex[u].pc = "read"}}

\* C3: at most one unit at a time is between its 'set position' and its
\* 'read' on the decode handle.
C3_OneUnitOnHandle == Cardinality(ReadPending) <= 1

\* C10: no unit sets a position on, or reads from, a handle that has been
\* released.
C10_NoUseAfterRelease == ~used_released

\* C5: whenever the controller is Playing below the last frame (and the
\* toggle handler has returned), a playback unit is running; also after the
\* second and later play().
C5_PlayingHasUnit ==
    (UiIdle /\ is_playing /\ current_frame_idx < frame_count - 1)
    => \E t \in PlayIds : Alive(t)

InStep(t) == th[t].pc \in {"step", "assign", "set", "read", "pipe"}

\* C6: after a pause the playback unit performs at most one further
\* step(+1) and ends; it performs no step in a loop iteration that began
\* after the pause.
C6_AtMostOneStepAfterPause ==
    \A t \in PlayIds :
        /\ th[t].steps_after <= 1
        /\ th[t].late => ~InStep(t) /\ th[t].pc # "last_check"

\* C6, its case: a unit that was inside an iteration when the pause came
\* made its one further step and ended.
C6_Witness ==
    \E t \in PlayIds : th[t].paused /\ th[t].steps_after = 1 /\ th[t].pc = "dead"

\* min(frame_count-1, max(0, current+delta))
ClaimedTarget(cur, delta, fc) == Min(fc - 1, Max(0, cur + delta))

Loaded == video_cap # 0 /\ frame_count >= 1

\* What a step call does, as transitions: the target it computes from the
\* index it reads, the index it then stores, and that it goes on to fetch a
\* frame exactly when the target differs from the index.
C8_StepLaw ==
    /\ \A d \in StepDeltas :
          (Loaded /\ BeginStep(d))
          => ui'.a = ClaimedTarget(current_frame_idx, d, frame_count)
    /\ \A t \in PlayIds :
          (Loaded /\ ThStep(t))
          => th'[t].new_idx = ClaimedTarget(current_frame_idx, 1, frame_count)
    /\ (ui.pc = "step_assign" /\ ui'.pc # "step_assign")
          => /\ current_frame_idx' = ui.a
             /\ (ui'.pc = "step_set") = (ui.a # current_frame_idx)
    /\ \A t \in PlayIds :
          (th[t].pc = "assign" /\ th'[t].pc # "assign")
          => /\ current_frame_idx' = th[t].new_idx
             /\ (th'[t].pc = "set") = (th[t].new_idx # current_frame_idx)

\* C8: with a video of frame_count >= 1 loaded, step(delta) sets the index
\* to min(frame_count-1, max(0, current+delta)) and fetches a frame only when
\* that differs from the index; after any interleaving of step calls of the
\* main thread and the playback unit the index is in 0..frame_count-1.
C8_StepClampsIndex ==
    /\ [](Loaded => current_frame_idx \in 0..(frame_count - 1))
    /\ [][C8_StepLaw]_vars

\* C8, its case: a step of the main thread is clamped at the last frame
\* (and will fetch nothing) while the playback unit is inside a step.
C8_Witness ==
    /\ Loaded
    /\ ui.pc = "step_assign"
    /\ ui.a = frame_count - 1
    /\ current_frame_idx = frame_count - 1
    /\ \E t \in PlayIds : InStep(t)

\* C9: after a seek to any requested index, a marker's frame included, the
\* index is in 0..frame_count-1.
C9_SeekKeepsIndexInRange ==
    (UiIdle /\ Loaded) => current_frame_idx \in 0..(frame_count - 1)

\* The control values a run has read so far are those of configuration c
RunReadFrom(pl, c) ==
    \A j \in 1..pl.k :
        pl.v[ReadOrder(pl.has_ov)[j]] = c[ReadOrder(pl.has_ov)[j]]

\* C4: the control values one pipeline run used all come from one
\* configuration that existed between its start and its end.
C4_NoTornRead ==
    \A e \in ExpIds :
        (ex[e].pc = "progress" /\ ex[e].pl.k > 0)
        => \E j \in ex[e].pl.h0..Len(ctl_hist) : RunReadFrom(ex[e].pl, ctl_hist[j])

\* C7: playback started at any index and never paused eventually reaches
\* the last frame, where the controller becomes Stopped.
C7_PlaybackReachesLastFrame ==
    is_playing ~> (~is_playing /\ (Loaded => current_frame_idx = frame_count - 1))

\* C11: the sink a video export opened is closed on every exit path of the
\* worker, the error exits included: a worker that has ended holds no open sink.
C11_SinkClosedOnEveryExit ==
    \A e \in ExpIds : ExportDone(e) => ex[e].sink # "open"

\* A playback step's decoder read has just failed: the thread leaves "read"
\* without a frame to process.
PlaybackReadFailed(t) == th[t].pc = "read" /\ th'[t].pc \notin {"read", "pipe"}

\* C12: when a decoder read fails during a playback step, playback stops and
\* the current index is the index of the last frame that was read: the index
\* has not advanced to the one whose read failed.
C12_FailedReadStopsPlayback ==
    [][\A t \in PlayIds :
          PlaybackReadFailed(t)
          => /\ ~is_playing'
             /\ current_frame_idx' = current_frame']_vars

\* What a project load may change
LoadedState == <<effects_pipeline, overlay_params, crop_params, markers, params, ctl>>

\* C13: a project load that fails (a document that cannot be parsed, or a
\* field of the wrong shape such as a 'parameters' value that is no map)
\* leaves the effect list, overlay params, crop params, markers and every
\* scalar control value as they were.
C13_FailedLoadChangesNothing ==
    [][(LoadProject /\ LoadRaises(project_file)) => UNCHANGED LoadedState]_vars

\* C14: loading a project back restores the effective pipeline of the moment
\* it was saved: the effect list, the scalar effect parameters and the crop
\* and overlay values the pipeline read then.
C14_RoundTripRestoresPipeline ==
    [][(LoadProject /\ project_file.from_save)
       => EffectiveConfig' = project_file.effective]_vars

\* The requested crop rectangle lies inside the frame
CropInside(p) == 0 <= p.x /\ 0 <= p.y /\ p.x + p.w <= p.fw /\ p.y + p.h <= p.fh

\* The rectangle that was cut lies inside the frame
CropClamped(p) ==
    /\ 0 <= p.out.x0 /\ p.out.x0 + p.out.w <= p.fw
    /\ 0 <= p.out.y0 /\ p.out.y0 + p.out.h <= p.fh

\* C15: when the pipeline crops a frame, the crop rectangle is inside the
\* frame, or the run is rejected, or the rectangle is clamped; and the frame
\* returned is not empty and not smaller than the requested w x h.
C15_CropInsideOrRejected ==
    probe.fn = "crop"
    => /\ CropInside(probe) \/ probe.raised \/ CropClamped(probe)
       /\ probe.raised \/ (probe.out.w > 0 /\ probe.out.h > 0)
       /\ probe.raised \/ (probe.out.w >= probe.w /\ probe.out.h >= probe.h)

\* The largest centered rectangle of ratio rw:rh inside a fw x fh frame
ClaimedAspectRect(fw, fh, rw, rh) ==
    IF fw * rh > rw * fh
    THEN LET w == (fh * rw) \div rh IN <<(fw - w) \div 2, 0, w, fh>>
    ELSE LET h == (fw * rh) \div rw IN <<0, (fh - h) \div 2, fw, h>>

\* C16: with a frame loaded, set_aspect_ratio(rw, rh) enables crop and sets
\* (x, y, w, h) to the largest centered rectangle of ratio rw:rh inside the
\* frame, which for 1920x1080 and 1:1 is (420, 0, 1080, 1080).
C16_AspectRatioSetsCenteredCrop ==
    [][\A r \in AspectPresets : \A size \in FrameSizes :
          (SetAspectRatio(r[1], r[2], size) /\ current_frame # NoFrame)
          => /\ ctl'.crop_enabled
             /\ <<ctl'.crop_x, ctl'.crop_y, ctl'.crop_w, ctl'.crop_h>>
                   = ClaimedAspectRect(size[1], size[2], r[1], r[2])
             /\ ClaimedAspectRect(1920, 1080, 1, 1) = <<420, 0, 1080, 1080>>]_vars

\* The destination rectangle of an overlay call leaves the frame
RectLeavesFrame(p) ==
    p.x < 0 \/ p.y < 0 \/ p.x + p.w > p.in.w \/ p.y + p.h > p.in.h

\* Every pixel of the destination rectangle is the blend of the frame's pixel
\* and the overlay's, and every other pixel is the frame's
Composited(p) ==
    /\ p.out.w = p.in.w /\ p.out.h = p.in.h
    /\ \A c \in 0..(p.in.w - 1) : \A r \in 0..(p.in.h - 1) :
          p.out.px[c, r] =
             IF p.x <= c /\ c < p.x + p.w /\ p.y <= r /\ r < p.y + p.h
             THEN Min(255, RoundHalfEven(p.in.px[c, r] * (100 - p.opacity)
                                         + OverlayPixel * p.opacity, 100))
             ELSE p.in.px[c, r]

\* C17: overlay compositing returns the frame unchanged when the destination
\* rectangle has x < 0, y < 0, x+w > frame_w or y+h > frame_h, and composites
\* when the rectangle is inside the frame, touching edges counting as inside.
C17_OverlayBoundsPolicy ==
    (probe.fn = "overlay" /\ ~probe.raised)
    => IF RectLeavesFrame(probe) THEN probe.out = probe.in ELSE Composited(probe)

\* An overlay that touches the right and bottom edges from the origin was
\* composited and changed the frame.
C17_Witness ==
    /\ probe.fn = "overlay" /\ ~probe.raised
    /\ probe.x = 0 /\ probe.y = 0
    /\ probe.x + probe.w = probe.in.w /\ probe.y + probe.h = probe.in.h
    /\ probe.out # probe.in

\* clamp(n, 0, 255)
Clamp255(n) == Max(0, Min(255, n))

\* C18: color-adjust maps every channel value v to
\* clamp(v*contrast + brightness, 0, 255), so a negative intermediate value
\* gives 0, and with contrast 1 and brightness 0 it is the identity.
C18_ColorAdjustClamps ==
    probe.fn = "color_adjust"
    => /\ probe.out = Clamp255(probe.v * probe.contrast + probe.brightness)
       /\ (probe.contrast = 1 /\ probe.brightness = 0) => probe.out = probe.v

\* C19: a pipeline run has no side effects and is deterministic: it leaves
\* the input frame buffer, the stored current frame, the effect list, the
\* overlay image and every parameter value unchanged, and a second run on
\* the same frame with the same effect list, overlay and crop state returns
\* the same output.
C19_PipelineIsPure ==
    /\ [](probe.fn = "pipeline"
          => probe.frame_kept /\ probe.overlay_kept /\ probe.same_output)
    /\ [][RunActs => UNCHANGED <<current_frame, effects_pipeline, overlay_image,
                                 params, ctl, crop_params, overlay_params>>]_vars

\* A run that drew text or blended the overlay into the array it worked on
\* was observed, with the frame passed in as it was before.
C19_Witness == probe.fn = "pipeline" /\ probe.drawn /\ probe.frame_kept

\* C20: an export over N frames reports exactly one progress value per
\* frame index, the value for index i being i/N*100; the values reach the
\* control surface in increasing index order, all of them before the
\* completion status, and the reset of the progress indicator after it.
ProgressOf(e, log) ==
    SelectSeq(log, LAMBDA m : m.e = e /\ m.what = "progress")
IsCompletion(m, e) == m.e = e /\ m.what = "status" /\ m.text = "complete"
C20_ProgressPerIndexInOrder ==
    \A e \in ExpIds :
        /\ LET pr == ProgressOf(e, tk_log)
           IN \A k \in 1..Len(pr) :
                 /\ pr[k].i = k - 1
                 /\ pr[k].value.num * ex[e].n = (k - 1) * 100 * pr[k].value.den
        /\ \A k \in 1..Len(tk_log) :
              /\ IsCompletion(tk_log[k], e)
                   => Len(ProgressOf(e, SubSeq(tk_log, 1, k - 1))) = ex[e].n
              /\ (tk_log[k].e = e /\ tk_log[k].what = "reset")
                   => \E j \in 1..(k - 1) : IsCompletion(tk_log[j], e)

\* C21: after any sequence of add_marker, clear_markers and load_project the
\* presented marker list holds exactly the stored markers, duplicates
\* included, in non-decreasing order of frame, and selecting its k-th row
\* sets the index to the frame that row shows.
Occurrences(ms, m) == Cardinality({i \in 1..Len(ms) : ms[i] = m})
SameMarkers(a, b) ==
    /\ Len(a) = Len(b)
    /\ \A i \in 1..Len(a) : Occurrences(a, a[i]) = Occurrences(b, a[i])
NonDecreasing(ms) == \A i \in 1..(Len(ms) - 1) : ms[i].frame <= ms[i + 1].frame
C21_PresentedMarkersSorted ==
    /\ [](SameMarkers(markers_listbox, markers) /\ NonDecreasing(markers_listbox))
    /\ [][\A k \in 1..MaxMarkers :
             JumpToMarker(k) => current_frame_idx' = markers_listbox[k].frame]_vars

\* C22: while a video is loaded and no read has failed, after each completed
\* operation the stored current frame, and the processed frame made from
\* it, is the decoded frame at the current index; so it is after a jump to a
\* marker whose frame differs from the index shown before.
C22_CurrentFrameIsFrameAtIndex ==
    (UiIdle /\ Loaded /\ fail_budget = MaxDecodeFailures)
    => /\ current_frame = current_frame_idx
       /\ processed_frame.src = current_frame_idx

\* C23: after every completed operation that changes crop or overlay
\* settings (a crop or overlay control change, set_aspect_ratio,
\* load_project) the stored crop_params and overlay_params equal the crop and
\* overlay control values the pipeline reads.
C23_StoredParamsMatchControls ==
    [][(CropActs \/ OverlayActs \/ AspectActs \/ LoadProject)
       => /\ crop_params' = CropParamsOf(ctl')
          /\ overlay_params' = OverlayParamsOf(ctl')]_vars

\* C24: every frame a video export writes to its sink has the width and
\* height the sink was opened with, also when the crop settings are changed
\* while the export is running.
C24_WrittenFramesFitSink ==
    \A e \in ExpIds :
        ex[e].kind = "video"
        => \A k \in 1..Len(ex[e].written) : ResultSize(ex[e].written[k]) = ex[e].size

\* C25: at most one playback unit is alive at any time, whatever the play
\* and pause toggles, a pause whose bounded wait ends while the unit is
\* still inside a step included.
C25_OnePlaybackUnit == Cardinality({t \in PlayIds : Alive(t)}) <= 1

\* C25, its case: the wait of a pause is over, play was pressed again and the
\* unit that was paused is still inside its step.
C25_Witness ==
    UiIdle /\ is_playing /\ \E t \in PlayIds : th[t].paused /\ InStep(t)

====
